---- MODULE Spec2Model ----
(***************************************************************************)
(* Model of the graph store of the filesystem visualizer: the React        *)
(* component App (its graphData state and the handlers handleClick,        *)
(* handleCompress, handleExpand) and the Go backend call ReadDir.          *)
(*                                                                         *)
(* A path is a sequence of names; filepath.Join appends a name.  graphData *)
(* is the React state (every queued updater applied, in order); view is    *)
(* the graphData value of the last render, which is what the handlers'     *)
(* closures read.  An update made after the await in handleExpand is       *)
(* rendered by a later step (Render); an update made inside a click is     *)
(* rendered synchronously at the end of that click.                        *)
(*                                                                         *)
(* The Visualizer component keeps the d3 force simulation (sim), the node  *)
(* objects it shares with it (objs, by reference: a token names an         *)
(* object) and its own state nodes (vizNodes), which is what is drawn and  *)
(* what the merge effect reads; setNodes made by the merge effect is       *)
(* rendered by a later Render.  A position stands for (x, y, vx, vy), a    *)
(* pin for (fx, fy); alpha is counted in thousandths.                      *)
(*                                                                         *)
(* Spec is the store with its renders and reseeds; SpecSim adds the timer  *)
(* and the window resize, SpecDrag also the pointer gestures on the drawn  *)
(* nodes; none of these writes the store.  SpecReadDir is one backend      *)
(* ReadDir call after another (rd) on a filesystem from which other        *)
(* processes remove entries (removed); the other specifications read a     *)
(* filesystem that does not change.                                        *)
(***************************************************************************)
EXTENDS Integers, Sequences, FiniteSets, TLC

\* Number of handleExpand calls a behaviour may issue.
MaxExpands == 3


\* Number of handleExpand calls a behaviour of SpecSim may issue.
MaxSimExpands == 2

\* Number of handleExpand calls a behaviour of SpecDrag may issue.
MaxDragExpands == 1

\* Number of pointers (mouse, touch points) that can be down at once, each on
\* a node of its own.
MaxPointers == 2

\* Number of distinct positions of the model's plane.
PosRange == 2

\* Number of times the timer fires in one Tick step of the model.
TicksPerStep == 150

VARIABLES graphData, view, calls, last, sim, objs, vizNodes, mounted,
          isDragging, pointers, removed, rd

vars == <<graphData, view, calls, last, sim, objs, vizNodes, mounted,
          isDragging, pointers, removed, rd>>

storeVars == <<graphData, view, calls, last>>

simVars == <<sim, objs, vizNodes, mounted>>

dragVars == <<isDragging, pointers>>

goVars == <<removed, rd>>

-----------------------------------------------------------------------------
\* Sequence helpers (Array.prototype.map / filter / some).

MapSeq(s, f(_)) == [i \in 1..Len(s) |-> f(s[i])]

Range(s) == {s[i] : i \in 1..Len(s)}

-----------------------------------------------------------------------------
\* The filesystem under the root and the backend call.

ROOT_PATH == <<"Users">>

Join(path, name) == Append(path, name)

\* os.ReadDir: the directory entries of path, sorted by file name.
OsReadDir(path) ==
    CASE path = <<"Users">> ->
            << [name |-> "a", isDir |-> TRUE],
               [name |-> "b", isDir |-> TRUE],
               [name |-> "f", isDir |-> FALSE] >>
      [] path = <<"Users", "a">> ->
            << [name |-> "c", isDir |-> TRUE],
               [name |-> "g", isDir |-> FALSE] >>
      [] path = <<"Users", "a", "c">> ->
            << [name |-> "h", isDir |-> FALSE] >>
      [] OTHER -> << >>

\* App.ReadDir on success: one FileNode per entry.
ReadDir(path) ==
    MapSeq(OsReadDir(path),
           LAMBDA entry : [name |-> entry.name,
                           path |-> Join(path, entry.name),
                           type |-> IF entry.isDir THEN "folder" ELSE "file"])

\* The paths of the tree below the root, each a thing that can be removed
\* while a ReadDir call runs.
TreePaths ==
    { <<"Users", "a">>, <<"Users", "b">>, <<"Users", "f">>,
      <<"Users", "a", "c">>, <<"Users", "a", "g">>, <<"Users", "a", "c", "h">> }

\* The paths ReadDir is called with: directories, a file, a missing path.
CallPaths ==
    { <<"Users">>, <<"Users", "a">>, <<"Users", "b">>, <<"Users", "a", "c">>,
      <<"Users", "f">>, <<"Users", "x">> }

Parent(path) == SubSeq(path, 1, Len(path) - 1)

\* lstat(path): the directory entry of path, if path exists now.
RECURSIVE Lstat(_, _)
Lstat(path, gone) ==
    IF path = ROOT_PATH THEN {[name |-> "Users", isDir |-> TRUE]}
    ELSE IF Len(path) <= 1 \/ path \in gone THEN {}
    ELSE IF \A up \in Lstat(Parent(path), gone) : ~ up.isDir THEN {}
    ELSE {entry \in Range(OsReadDir(Parent(path))) : entry.name = path[Len(path)]}

\* os.ReadDir(path) now: the entries still there, sorted by file name.
Listing(path, gone) ==
    SelectSeq(OsReadDir(path), LAMBDA entry : Join(path, entry.name) \notin gone)

\* No ReadDir call is running.
RdIdle ==
    [pc |-> "idle", path |-> << >>, entries |-> << >>, nodes |-> << >>,
     outcome |-> "none"]

-----------------------------------------------------------------------------
\* The store.

rootNode == [id |-> ROOT_PATH, name |-> "ROOT", type |-> "folder"]

\* Link endpoints in graphData are always raw identities: the Visualizer
\* hands d3 its own copies of the links, so the object branch is never taken.
getId(item) == item

isAlreadyExpanded(node, links) ==
    \E i \in 1..Len(links) : getId(links[i].source) = node.id

\* A traversal without the source test: every link target is a child.
getDescendantsUnfiltered(parentId, links) ==
    MapSeq(links, LAMBDA link : getId(link.target))

\* A traversal that counts the parent among its descendants.
RECURSIVE getDescendantsAndSelf(_, _)
getDescendantsAndSelf(parentId, links) ==
    LET directChildren ==
            MapSeq(SelectSeq(links, LAMBDA link : getId(link.source) = parentId),
                   LAMBDA link : getId(link.target))
        RECURSIVE forEach(_, _)
        forEach(i, childrenIds) ==
            IF i > Len(directChildren) THEN childrenIds
            ELSE forEach(i + 1,
                     childrenIds \o getDescendantsAndSelf(directChildren[i], links))
    IN  forEach(1, <<parentId>> \o directChildren)

\* A traversal that stops at the direct children.
getDescendantsShallow(parentId, links) ==
    MapSeq(SelectSeq(links, LAMBDA link : getId(link.source) = parentId),
           LAMBDA link : getId(link.target))

RECURSIVE getDescendants(_, _)
getDescendants(parentId, links) ==
    LET directChildren ==
            MapSeq(SelectSeq(links, LAMBDA link : getId(link.source) = parentId),
                   LAMBDA link : getId(link.target))
        RECURSIVE forEach(_, _)
        forEach(i, childrenIds) ==
            IF i > Len(directChildren) THEN childrenIds
            ELSE forEach(i + 1,
                         childrenIds \o getDescendants(directChildren[i], links))
    IN  forEach(1, directChildren)

\* The updater of handleCompress applied to a store value prev.
CompressUpdater(descendantsToRemove, prev) ==
    [nodes |-> SelectSeq(prev.nodes, LAMBDA n : n.id \notin descendantsToRemove),
     links |-> SelectSeq(prev.links,
                  LAMBDA l : /\ getId(l.target) \notin descendantsToRemove
                             /\ getId(l.source) \notin descendantsToRemove)]

\* handleExpand's forEach over the returned files: the entries that are new
\* with respect to the nodes the closure sees.
IsNewFile(file, closureNodes) ==
    ~ \E i \in 1..Len(closureNodes) : closureNodes[i].id = file.path

NewNodes(files, closureNodes) ==
    MapSeq(SelectSeq(files, LAMBDA file : IsNewFile(file, closureNodes)),
           LAMBDA file : [id |-> file.path, name |-> file.name,
                          type |-> IF file.type = "folder" THEN "folder" ELSE "file"])

NewLinks(node, files, closureNodes) ==
    MapSeq(SelectSeq(files, LAMBDA file : IsNewFile(file, closureNodes)),
           LAMBDA file : [source |-> node.id, target |-> file.path])

\* The updater of handleExpand applied to a store value prev.
ExpandUpdater(newNodes, newLinks, prev) ==
    [nodes |-> prev.nodes \o newNodes,
     links |-> prev.links \o newLinks]

-----------------------------------------------------------------------------
\* The d3 force simulation of the Visualizer.

\* undefined / null of a position or pin field
NoValue == -1

\* alpha(1) of the merge effect, in thousandths
AlphaReseed == 1000

\* alpha(0.3) of handleResize
AlphaResize == 300

\* alphaTarget(0.3) of onDragStart
AlphaTargetDrag == 300

\* d3.forceSimulation defaults: alphaMin 0.001, alphaDecay 1 - 0.001^(1/300)
AlphaMin == 1

AlphaDecayPer10000 == 228

Max(S) == CHOOSE x \in S : \A y \in S : y <= x

\* The smallest token that names no object of used.
FreeToken(used) ==
    CHOOSE t \in 1..(Cardinality(used) + 1) :
        t \notin used /\ \A u \in 1..(t - 1) : u \in used

\* existingNodesMap.get(id): the last object of existing with this id, 0 if
\* the map has none.
ExistingNode(id, existing, o) ==
    LET at == {i \in 1..Len(existing) : o[existing[i]].id = id}
    IN  IF at = {} THEN 0 ELSE existing[Max(at)]

\* newNodes of the merge effect, as tokens, from entry i on: the existing
\* object of an id the Visualizer already holds, a fresh copy otherwise.
RECURSIVE MergeNodes(_, _, _, _, _)
MergeNodes(i, initialNodes, existing, o, newNodes) ==
    IF i > Len(initialNodes) THEN newNodes
    ELSE LET found == ExistingNode(initialNodes[i].id, existing, o)
             t == IF found # 0 THEN found
                  ELSE FreeToken(DOMAIN o \cup Range(newNodes))
         IN  MergeNodes(i + 1, initialNodes, existing, o, Append(newNodes, t))

\* d3's initializeNodes for the object at index i: a pinned object sits on
\* its pin, an object without position gets one from its index.
InitializeNode(obj, i) ==
    IF obj.fx # NoValue THEN [obj EXCEPT !.x = obj.fx]
    ELSE IF obj.x = NoValue THEN [obj EXCEPT !.x = i % PosRange]
    ELSE obj

\* The objects after simulation.nodes(newNodes): the copies { ...n } of the
\* new entries join the heap and every registered object is initialized.
MergeObjs(initialNodes, newNodes, o) ==
    LET indexOf(t) == Max({i \in 1..Len(newNodes) : newNodes[i] = t})
        copy(n) == [id |-> n.id, name |-> n.name, type |-> n.type,
                    x |-> NoValue, fx |-> NoValue]
    IN  [t \in DOMAIN o \cup Range(newNodes) |->
            IF t \in Range(newNodes)
            THEN InitializeNode(IF t \in DOMAIN o THEN o[t]
                                ELSE copy(initialNodes[indexOf(t)]),
                                indexOf(t))
            ELSE o[t]]

\* forceLink.links(newLinks) resolves every endpoint by id among the
\* registered nodes and throws "node not found" when one is missing.
LinksResolve(links, newNodes, o) ==
    \A i \in 1..Len(links) :
        /\ \E k \in 1..Len(newNodes) : o[newNodes[k]].id = links[i].source
        /\ \E k \in 1..Len(newNodes) : o[newNodes[k]].id = links[i].target

\* The objects still referenced by the simulation or by the Visualizer.
Live(o, simNodes, drawn) ==
    [t \in Range(simNodes) \cup Range(drawn) |-> o[t]]

\* A merge effect that registers the nodes and forgets the links.
MergeEffectNodesOnly(initialData, existing) ==
    LET newNodes == MergeNodes(1, initialData.nodes, existing, objs, << >>)
        newObjs == MergeObjs(initialData.nodes, newNodes, objs)
    IN  [ok |-> TRUE, objs |-> newObjs,
         sim |-> [sim EXCEPT !.nodes = newNodes, !.alpha = AlphaReseed,
                             !.running = TRUE]]

\* The merge effect of the Visualizer for a new initialData, run with the
\* Visualizer state existing: the simulation, the objects, and whether the
\* effect ran to its end.
MergeEffect(initialData, existing) ==
    LET newNodes == MergeNodes(1, initialData.nodes, existing, objs, << >>)
        newObjs == MergeObjs(initialData.nodes, newNodes, objs)
        ok == LinksResolve(initialData.links, newNodes, newObjs)
    IN  [ok |-> ok,
         objs |-> newObjs,
         sim |-> IF ok
                 THEN [sim EXCEPT !.nodes = newNodes,
                                  !.links = initialData.links,
                                  !.alpha = AlphaReseed,
                                  !.running = TRUE]
                 ELSE [sim EXCEPT !.nodes = newNodes, !.running = FALSE]]

-----------------------------------------------------------------------------
NoPre == [nodes |-> << >>, links |-> << >>]

NoPointers == {}

Init ==
    /\ graphData = [nodes |-> <<rootNode>>, links |-> << >>]
    /\ view = [nodes |-> <<rootNode>>, links |-> << >>]
    /\ calls = << >>
    /\ last = [op |-> "mount", node |-> ROOT_PATH, call |-> 0, pre |-> NoPre]
    /\ sim = [nodes |-> <<1>>, links |-> << >>, alpha |-> AlphaReseed,
              alphaTarget |-> 0, running |-> TRUE]
    /\ objs = (1 :> [id |-> ROOT_PATH, name |-> "ROOT", type |-> "folder",
                     x |-> 1 % PosRange, fx |-> NoValue])
    /\ vizNodes = <<1>>
    /\ mounted = TRUE
    /\ removed = {}
    /\ rd = RdIdle
    /\ isDragging = {}
    /\ pointers = NoPointers

\* The NodeData the Visualizer passes to onNodeClick for a drawn object.
NodeOf(t) == [id |-> objs[t].id, name |-> objs[t].name, type |-> objs[t].type]

\* The nodes the user can click: the ones the Visualizer draws, until an
\* error thrown by an effect unmounts the component tree.
Clickable == IF mounted THEN {NodeOf(t) : t \in Range(vizNodes)} ELSE {}

\* A handleExpand invocation at its await: the node, the nodes its closure
\* sees, and (for the record) whether the store holds the node.
NewCall(node) ==
    [node |-> node, closureNodes |-> view.nodes,
     status |-> "awaiting", read |-> "pending", reads |-> 1, logged |-> FALSE,
     present |-> \E i \in 1..Len(graphData.nodes) : graphData.nodes[i].id = node.id]

\* A handleClick without the kind test: a file is expanded like a folder.
ClickFileExpands(node) ==
    /\ node \in Clickable
    /\ node.type # "folder"
    /\ Len(calls) < MaxExpands
    /\ calls' = Append(calls, NewCall(node))
    /\ last' = [op |-> "clickFile", node |-> node.id, call |-> 0, pre |-> NoPre]
    /\ UNCHANGED <<graphData, view>>
    /\ UNCHANGED <<simVars, dragVars>>
    /\ UNCHANGED goVars

\* handleClick on a file: returns at once.
ClickFile(node) ==
    /\ node \in Clickable
    /\ node.type # "folder"
    /\ last' = [op |-> "clickFile", node |-> node.id, call |-> 0, pre |-> NoPre]
    /\ UNCHANGED <<graphData, view, calls>>
    /\ UNCHANGED <<simVars, dragVars>>
    /\ UNCHANGED goVars

\* handleClick on a folder the closure sees expanded: handleCompress, then
\* the synchronous render of the click with its merge effect.
ClickCollapse(node) ==
    /\ node \in Clickable
    /\ node.type = "folder"
    /\ isAlreadyExpanded(node, view.links)
    /\ LET descendantsToRemove == Range(getDescendants(node.id, view.links))
           rendered == CompressUpdater(descendantsToRemove, view)
           effect == MergeEffect(rendered, vizNodes)
       IN  /\ graphData' = CompressUpdater(descendantsToRemove, graphData)
           /\ view' = rendered
           /\ sim' = effect.sim
           /\ objs' = Live(effect.objs, effect.sim.nodes, vizNodes)
           /\ mounted' = effect.ok
    /\ last' = [op |-> "collapse", node |-> node.id, call |-> 0, pre |-> NoPre]
    /\ UNCHANGED <<calls, vizNodes, dragVars>>
    /\ UNCHANGED goVars

\* handleClick on a folder the closure sees not expanded: handleExpand up to
\* its await of ReadDir.
ClickExpand(node) ==
    /\ node \in Clickable
    /\ node.type = "folder"
    /\ ~ isAlreadyExpanded(node, view.links)
    /\ Len(calls) < MaxExpands
    /\ calls' = Append(calls, NewCall(node))
    /\ last' = [op |-> "expand", node |-> node.id, call |-> Len(calls) + 1,
                pre |-> NoPre]
    /\ UNCHANGED <<graphData, view>>
    /\ UNCHANGED <<simVars, dragVars>>
    /\ UNCHANGED goVars

\* Call c waits for its ReadDir (the model follows App up to its unmount).
Awaiting(c) == mounted /\ c \in 1..Len(calls) /\ calls[c].status = "awaiting"

\* A catch block that rethrows: handleExpand ends rejected.
CaughtRethrown(call) ==
    [call EXCEPT !.status = "rejected", !.read = "err", !.logged = TRUE]

\* The call record of handleExpand once its catch block has run.
Caught(call) ==
    [call EXCEPT !.status = "resolved", !.read = "err", !.logged = TRUE]

\* A failure path that still appends what the closure considers new.
ReadDirFailsPartial(c) ==
    /\ Awaiting(c)
    /\ calls' = [calls EXCEPT ![c] = Caught(calls[c])]
    /\ last' = [op |-> "readFailed", node |-> calls[c].node.id, call |-> c,
                pre |-> NoPre]
    /\ LET files == ReadDir(calls[c].node.id)
       IN  graphData' =
               ExpandUpdater(NewNodes(files, calls[c].closureNodes),
                             NewLinks(calls[c].node, files, calls[c].closureNodes),
                             graphData)
    /\ UNCHANGED view
    /\ UNCHANGED <<simVars, dragVars>>
    /\ UNCHANGED goVars

\* ReadDir rejects: the catch block logs and handleExpand returns.
ReadDirFails(c) ==
    /\ Awaiting(c)
    /\ calls' = [calls EXCEPT ![c] = Caught(calls[c])]
    /\ last' = [op |-> "readFailed", node |-> calls[c].node.id, call |-> c,
                pre |-> NoPre]
    /\ UNCHANGED <<graphData, view>>
    /\ UNCHANGED <<simVars, dragVars>>
    /\ UNCHANGED goVars

\* An empty listing treated as a failure: it is logged.
ReadDirEmptyLogged(c) ==
    /\ Awaiting(c)
    /\ Len(ReadDir(calls[c].node.id)) = 0
    /\ calls' = [calls EXCEPT ![c].status = "resolved", ![c].read = "ok",
                              ![c].logged = TRUE]
    /\ last' = [op |-> "readEmpty", node |-> calls[c].node.id, call |-> c,
                pre |-> NoPre]
    /\ UNCHANGED <<graphData, view>>
    /\ UNCHANGED <<simVars, dragVars>>
    /\ UNCHANGED goVars

\* ReadDir resolves with no entries (a nil slice, null on the JS side).
ReadDirEmpty(c) ==
    /\ Awaiting(c)
    /\ Len(ReadDir(calls[c].node.id)) = 0
    /\ calls' = [calls EXCEPT ![c].status = "resolved", ![c].read = "ok"]
    /\ last' = [op |-> "readEmpty", node |-> calls[c].node.id, call |-> c,
                pre |-> NoPre]
    /\ UNCHANGED <<graphData, view>>
    /\ UNCHANGED <<simVars, dragVars>>
    /\ UNCHANGED goVars

\* A handleExpand that tests the entries against the state the updater gets.
ReadDirReturnsFresh(c) ==
    /\ Awaiting(c)
    /\ LET files == ReadDir(calls[c].node.id)
           newNodes == NewNodes(files, graphData.nodes)
           newLinks == NewLinks(calls[c].node, files, graphData.nodes)
       IN  /\ Len(files) > 0
           /\ graphData' = IF Len(newNodes) > 0
                           THEN ExpandUpdater(newNodes, newLinks, graphData)
                           ELSE graphData
    /\ calls' = [calls EXCEPT ![c].status = "resolved", ![c].read = "ok"]
    /\ last' = [op |-> "readReturned", node |-> calls[c].node.id, call |-> c,
                pre |-> graphData]
    /\ UNCHANGED view
    /\ UNCHANGED <<simVars, dragVars>>
    /\ UNCHANGED goVars

\* ReadDir resolves with entries: the rest of handleExpand.
ReadDirReturns(c) ==
    /\ Awaiting(c)
    /\ LET files == ReadDir(calls[c].node.id)
           newNodes == NewNodes(files, calls[c].closureNodes)
           newLinks == NewLinks(calls[c].node, files, calls[c].closureNodes)
       IN  /\ Len(files) > 0
           /\ graphData' = IF Len(newNodes) > 0
                           THEN ExpandUpdater(newNodes, newLinks, graphData)
                           ELSE graphData
    /\ calls' = [calls EXCEPT ![c].status = "resolved", ![c].read = "ok"]
    /\ last' = [op |-> "readReturned", node |-> calls[c].node.id, call |-> c,
                pre |-> graphData]
    /\ UNCHANGED view
    /\ UNCHANGED <<simVars, dragVars>>
    /\ UNCHANGED goVars

\* The DraggableNode components that stay mounted when drawn is rendered.
StillMounted(ids, drawn, o) == {id \in ids : \E t \in Range(drawn) : o[t].id = id}

\* React renders what is pending: the Visualizer state set by the last merge
\* effect and, when graphData changed, App with the current state (the
\* handlers are re-created) followed by the merge effect.
Render ==
    /\ mounted
    /\ view # graphData \/ vizNodes # sim.nodes
    /\ LET drawn == sim.nodes
           effect == IF view # graphData THEN MergeEffect(graphData, drawn)
                     ELSE [ok |-> TRUE, objs |-> objs, sim |-> sim]
       IN  /\ view' = graphData
           /\ vizNodes' = drawn
           /\ sim' = effect.sim
           /\ objs' = Live(effect.objs, effect.sim.nodes, drawn)
           /\ mounted' = effect.ok
           /\ isDragging' = StillMounted(isDragging, drawn, objs)
           /\ pointers' = StillMounted(pointers, drawn, objs)
    /\ UNCHANGED <<graphData, calls, last>>
    /\ UNCHANGED goVars

Next ==
    \/ \E node \in Clickable : ClickFile(node)
    \/ \E node \in Clickable : ClickCollapse(node)
    \/ \E node \in Clickable : ClickExpand(node)
    \/ \E c \in 1..Len(calls) : ReadDirFails(c)
    \/ \E c \in 1..Len(calls) : ReadDirEmpty(c)
    \/ \E c \in 1..Len(calls) : ReadDirReturns(c)
    \/ Render

Spec == Init /\ [][Next]_vars

-----------------------------------------------------------------------------
\* The simulation timer, the pointer gestures on the drawn nodes and the
\* window resize.

\* One simulation.tick(): alpha moves towards alphaTarget by the decay rate.
TickAlpha(alpha, alphaTarget) ==
    alpha + ((alphaTarget - alpha) * AlphaDecayPer10000) \div 10000

\* A step() that never stops the timer.
StepForever(s) ==
    [alpha |-> TickAlpha(s.alpha, s.alphaTarget), alphaTarget |-> s.alphaTarget,
     running |-> TRUE, ticks |-> s.ticks + 1]

\* The timer's step(): tick, then stop the timer once alpha is below alphaMin.
Step(s) ==
    IF ~ s.running THEN s
    ELSE LET alpha == TickAlpha(s.alpha, s.alphaTarget)
         IN  [alpha |-> alpha, alphaTarget |-> s.alphaTarget,
              running |-> ~ (alpha < AlphaMin), ticks |-> s.ticks + 1]

\* The timer fires n times in a row, or until it has stopped.
RECURSIVE Steps(_, _)
Steps(s, n) ==
    IF n = 0 \/ ~ s.running THEN s
    ELSE IF n = 1 THEN Step(s)
    ELSE Steps(Steps(s, n \div 2), n - n \div 2)

\* What the ticks do to a registered node: a pinned node is put at its pin,
\* any other node is moved.
TickNode(obj, ticks) ==
    IF obj.fx # NoValue THEN [obj EXCEPT !.x = obj.fx]
    ELSE [obj EXCEPT !.x = (obj.x + ticks) % PosRange]

\* The timer fires TicksPerStep times, or until it stops itself.
Tick ==
    /\ mounted
    /\ sim.running
    /\ LET run == Steps([alpha |-> sim.alpha, alphaTarget |-> sim.alphaTarget,
                          running |-> TRUE, ticks |-> 0], TicksPerStep)
       IN  /\ sim' = [sim EXCEPT !.alpha = run.alpha, !.running = run.running]
           /\ objs' = [t \in DOMAIN objs |->
                         IF t \in Range(sim.nodes) THEN TickNode(objs[t], run.ticks)
                         ELSE objs[t]]
    /\ UNCHANGED <<storeVars, vizNodes, mounted, dragVars>>
    /\ UNCHANGED goVars

\* The tokens of the drawn nodes.
Drawn == IF mounted THEN Range(vizNodes) ELSE {}

\* The drawn nodes of the given identities.
DrawnAs(ids) == {t \in Drawn : objs[t].id \in ids}

\* onDragStart: a pointer goes down on the drawn node t.
DragStart(t) ==
    /\ t \in Drawn
    /\ Cardinality(pointers) < MaxPointers
    /\ objs[t].id \notin pointers
    /\ isDragging' = isDragging \cup {objs[t].id}
    /\ pointers' = pointers \cup {objs[t].id}
    /\ sim' = [sim EXCEPT !.alphaTarget = AlphaTargetDrag, !.running = TRUE]
    /\ objs' = IF objs[t].x # NoValue THEN [objs EXCEPT ![t].fx = objs[t].x]
               ELSE objs
    /\ UNCHANGED <<storeVars, vizNodes, mounted>>
    /\ UNCHANGED goVars

\* An onDragMove without the isDragging test: any pointer-move pins.
DragMoveUnguarded(t, v) ==
    /\ t \in Drawn
    /\ objs' = [objs EXCEPT ![t].fx = v]
    /\ UNCHANGED <<storeVars, sim, vizNodes, mounted, dragVars>>
    /\ UNCHANGED goVars

\* onDragMove: a pointer moves over the drawn node t, to position v.
DragMove(t, v) ==
    /\ t \in Drawn
    /\ objs[t].id \in isDragging
    /\ objs' = [objs EXCEPT ![t].fx = v]
    /\ UNCHANGED <<storeVars, sim, vizNodes, mounted, dragVars>>
    /\ UNCHANGED goVars

\* onDragEnd: the pointer that went down on the node `pressed` goes up over
\* the drawn nodes `over` (none if it is over the background): pointerup
\* runs the handler of the node under the pointer, pointerupoutside that of
\* the node it went down on.
DragEnd(pressed, over) ==
    /\ pressed \in pointers
    /\ over \subseteq Drawn
    /\ Cardinality(over) <= 1
    /\ LET ended == DrawnAs({pressed}) \cup over
       IN  /\ ended # {}
           /\ isDragging' = isDragging \ {objs[t].id : t \in ended}
           /\ objs' = [t \in DOMAIN objs |->
                         IF t \in ended THEN [objs[t] EXCEPT !.fx = NoValue]
                         ELSE objs[t]]
    /\ pointers' = pointers \ {pressed}
    /\ sim' = [sim EXCEPT !.alphaTarget = 0]
    /\ UNCHANGED <<storeVars, vizNodes, mounted>>
    /\ UNCHANGED goVars

\* handleResize: the window is resized.
Resize ==
    /\ mounted
    /\ sim' = [sim EXCEPT !.alpha = AlphaResize, !.running = TRUE]
    /\ UNCHANGED <<storeVars, objs, vizNodes, mounted, dragVars>>
    /\ UNCHANGED goVars

\* The store with its renders and reseeds, and the timer and the resize.
NextSim ==
    \/ Next /\ Len(calls') <= MaxSimExpands
    \/ Tick
    \/ Resize

SpecSim == Init /\ [][NextSim]_vars

\* The same with the pointer gestures, for a few expansions.
NextDrag ==
    \/ Next /\ Len(calls') <= MaxDragExpands
    \/ Tick
    \/ Resize
    \/ \E t \in Drawn : DragStart(t)
    \/ \E t \in Drawn : \E v \in 0..(PosRange - 1) : DragMove(t, v)
    \/ \E pressed \in pointers : \E over \in SUBSET Drawn : DragEnd(pressed, over)

SpecDrag == Init /\ [][NextDrag]_vars

-----------------------------------------------------------------------------
\* The backend call App.ReadDir, step by step, on a filesystem that other
\* processes change while it runs.

\* Another process removes a file or a directory (with what is below it).
FsRemove(path) ==
    /\ path \in TreePaths \ removed
    /\ removed' = removed \cup {path}
    /\ UNCHANGED <<rd, storeVars, simVars, dragVars>>

\* ReadDir(path) up to the loop: os.ReadDir fails (return nil, err) or lists
\* the directory.
RdCall(path) ==
    /\ rd.pc \in {"idle", "done"}
    /\ rd' = IF \E st \in Lstat(path, removed) : st.isDir
             THEN [pc |-> "loop", path |-> path,
                   entries |-> Listing(path, removed), nodes |-> << >>,
                   outcome |-> "none"]
             ELSE [pc |-> "done", path |-> path, entries |-> << >>,
                   nodes |-> << >>, outcome |-> "error"]
    /\ UNCHANGED <<removed, storeVars, simVars, dragVars>>

\* One pass of the loop, for the next entry: a directory becomes a "folder"
\* node; for any other entry entry.Info() is an lstat now, its error is
\* dropped, and info.Size() on the nil info of a vanished entry panics.
RdEntry ==
    /\ rd.pc = "loop"
    /\ Len(rd.nodes) < Len(rd.entries)
    /\ LET entry == rd.entries[Len(rd.nodes) + 1]
           node == [name |-> entry.name, path |-> Join(rd.path, entry.name),
                    type |-> IF entry.isDir THEN "folder" ELSE "file"]
       IN  rd' = IF entry.isDir \/ Lstat(node.path, removed) # {}
                 THEN [rd EXCEPT !.nodes = Append(rd.nodes, node)]
                 ELSE [rd EXCEPT !.pc = "done", !.outcome = "panic"]
    /\ UNCHANGED <<removed, storeVars, simVars, dragVars>>

\* return nodes, nil
RdReturn ==
    /\ rd.pc = "loop"
    /\ Len(rd.nodes) = Len(rd.entries)
    /\ rd' = [rd EXCEPT !.pc = "done", !.outcome = "ok"]
    /\ UNCHANGED <<removed, storeVars, simVars, dragVars>>

NextReadDir ==
    \/ \E path \in TreePaths : FsRemove(path)
    \/ \E path \in CallPaths : RdCall(path)
    \/ RdEntry
    \/ RdReturn

SpecReadDir == Init /\ [][NextReadDir]_vars

-----------------------------------------------------------------------------
\* Vocabulary of the properties.

Ids(nodes) == {nodes[i].id : i \in 1..Len(nodes)}

Count(s, P(_)) == Cardinality({i \in 1..Len(s) : P(s[i])})

\* Same elements with the same multiplicities.
SameContents(s, t) ==
    \A x \in Range(s) \cup Range(t) :
        Count(s, LAMBDA y : y = x) = Count(t, LAMBDA y : y = x)

HasOutgoing(id, links) == \E i \in 1..Len(links) : links[i].source = id

Successors(S, links) ==
    {links[i].target : i \in {j \in 1..Len(links) : links[j].source \in S}}

RECURSIVE ReachFrom(_, _, _)
ReachFrom(frontier, seen, links) ==
    LET new == Successors(frontier, links) \ seen
    IN  IF new = {} THEN seen ELSE ReachFrom(new, seen \cup new, links)

\* The identities reachable from id by one or more links.
Reachable(id, links) == ReachFrom({id}, {}, links)

ReadInFlight == \E c \in 1..Len(calls) : calls[c].status = "awaiting"

\* This step is the completion of the read of call c.
Completes(c) == Awaiting(c) /\ calls'[c].status # "awaiting"

\* This step is a click that handleClick routed to handleCompress.
CollapseStep == last' # last /\ last'.op = "collapse"

-----------------------------------------------------------------------------
\* C1 - No dangling links: in every reachable state the source and the
\* target of every link are identities of nodes in the node set.
NoDanglingLinks ==
    \A i \in 1..Len(graphData.links) :
        /\ graphData.links[i].source \in Ids(graphData.nodes)
        /\ graphData.links[i].target \in Ids(graphData.nodes)

\* C2 - Node uniqueness: in every reachable state the node set holds at
\* most one node per identity.
NodeUniqueness ==
    \A i, j \in 1..Len(graphData.nodes) :
        graphData.nodes[i].id = graphData.nodes[j].id => i = j

\* C3 - Forest invariant: in every reachable state every node other than
\* the root has exactly one incoming link and the root has none.
ForestInvariant ==
    \A i \in 1..Len(graphData.nodes) :
        LET id == graphData.nodes[i].id
            incoming == Count(graphData.links, LAMBDA l : l.target = id)
        IN  IF id = ROOT_PATH THEN incoming = 0 ELSE incoming = 1

\* C4 - Toggle serialization: while a directory read is in flight, the only
\* step that changes the node set or the link set, or that starts a read, is
\* the completion of a read.
ToggleSerialization ==
    [][ReadInFlight =>
          \/ graphData' = graphData /\ Len(calls') = Len(calls)
          \/ \E c \in 1..Len(calls) : Completes(c)]_vars

\* C5 - Expand failure leaves the store unchanged: neither the click that
\* issues the read nor the failure of the read changes the node set or the
\* link set, so nothing of a partial result is added.
ExpandFailureLeavesStore ==
    [][/\ Len(calls') > Len(calls) => graphData' = graphData
       /\ \A c \in 1..Len(calls) :
             Completes(c) /\ calls'[c].read = "err" =>
                 graphData' = graphData /\ view' = view]_vars

\* C5 witness: a read has just failed while the store holds discovered nodes.
ExpandFailureSeen ==
    /\ last.op = "readFailed"
    /\ calls[last.call].read = "err"
    /\ Len(graphData.nodes) > 1

RoundTrip ==
    [][/\ last.op = "readReturned"
       /\ ~ HasOutgoing(last.node, last.pre.links)
       /\ CollapseStep
       /\ last'.node = last.node
       => /\ SameContents(graphData'.nodes, last.pre.nodes)
          /\ SameContents(graphData'.links, last.pre.links)
          /\ last.node \in Ids(graphData'.nodes)]_vars

\* The result of an earlier Expand of id is still in the store: every entry
\* of the directory has its node and its link from id.
Discovered(id, gd) ==
    /\ Len(ReadDir(id)) > 0
    /\ \A k \in 1..Len(ReadDir(id)) :
          /\ ReadDir(id)[k].path \in Ids(gd.nodes)
          /\ \E i \in 1..Len(gd.links) :
                gd.links[i] = [source |-> id, target |-> ReadDir(id)[k].path]

\* C8 - Idempotent re-discovery: a second Expand of a folder whose entries
\* are all still in the store adds no node and no link.
IdempotentRediscovery ==
    [][\A c \in 1..Len(calls) :
          /\ Completes(c)
          /\ calls'[c].read = "ok"
          /\ Discovered(calls[c].node.id, graphData)
          => graphData' = graphData]_vars

\* C9 - Expand result: when Expand(F) succeeds, the node set becomes the
\* previous one plus a node for every entry whose path was not in it, and the
\* link set the previous one plus the link (F, path) of every such entry.
ExpandResult ==
    [][\A c \in 1..Len(calls) :
          Completes(c) /\ calls'[c].read = "ok" =>
              LET files == ReadDir(calls[c].node.id)
              IN  /\ SameContents(graphData'.nodes,
                        graphData.nodes \o NewNodes(files, graphData.nodes))
                  /\ SameContents(graphData'.links,
                        graphData.links
                          \o NewLinks(calls[c].node, files, graphData.nodes))]_vars

\* C10 - Collapse removes the whole subtree: after Collapse(F) no node that
\* was reachable from F remains, no link touching such a node remains, F
\* remains and F has no outgoing link.
CollapseRemovesSubtree ==
    [][CollapseStep =>
          LET F == last'.node
              D == Reachable(F, graphData.links)
          IN  /\ Ids(graphData'.nodes) \cap D = {}
              /\ \A i \in 1..Len(graphData'.links) :
                    /\ graphData'.links[i].source \notin D
                    /\ graphData'.links[i].target \notin D
              /\ F \in Ids(graphData'.nodes)
              /\ ~ HasOutgoing(F, graphData'.links)]_vars

-----------------------------------------------------------------------------
\* This step is a click that handleClick routed to handleExpand.
ExpandStep == last' # last /\ last'.op = "expand"

\* C11 - Collapse frame: Collapse(F) leaves every node that is not a
\* descendant of F, and every link between two such nodes, as it was.
CollapseFrame ==
    [][CollapseStep =>
          LET D == Reachable(last'.node, graphData.links)
              outside(n) == n.id \notin D
              between(l) == l.source \notin D /\ l.target \notin D
          IN  /\ SelectSeq(graphData.nodes, outside)
                    = SelectSeq(graphData'.nodes, outside)
              /\ SelectSeq(graphData.links, between)
                    = SelectSeq(graphData'.links, between)]_vars

\* C11 witness: Users/a was collapsed and its sibling Users/b is still there,
\* linked from the root.
CollapseFrameSeen ==
    /\ last.op = "collapse"
    /\ last.node = <<"Users", "a">>
    /\ \E i \in 1..Len(graphData.links) :
          graphData.links[i] = [source |-> ROOT_PATH, target |-> <<"Users", "b">>]

\* C12 - Toggle dispatch: a Toggle of a folder F collapses, without a read,
\* exactly when the link set holds a link with source F, and otherwise
\* issues exactly one read of F and leaves the store as it is.
ToggleDispatch ==
    [][/\ CollapseStep => HasOutgoing(last'.node, graphData.links) /\ calls' = calls
       /\ ExpandStep =>
             /\ ~ HasOutgoing(last'.node, graphData.links)
             /\ Len(calls') = Len(calls) + 1
             /\ calls'[Len(calls')].node.id = last'.node
             /\ graphData' = graphData]_vars

\* C13 - Toggle on a file is a no-op: no read is issued, and the node set, the
\* link set and what the simulation has registered stay as they are.
FileToggleNoOp ==
    [][last'.op = "clickFile" /\ last' # last =>
          UNCHANGED <<graphData, view, calls, sim, objs>>]_vars

\* C13 witness: a file was clicked while the store holds discovered nodes.
FileToggled == last.op = "clickFile" /\ Len(graphData.nodes) > 1

\* C14 - Empty folder: a read that succeeds with no entries changes neither
\* the store nor the simulation (no reseed), logs no failure, and the folder
\* is not expanded afterwards.
EmptyFolderNoOp ==
    [][\A c \in 1..Len(calls) :
          Completes(c) /\ Len(ReadDir(calls[c].node.id)) = 0
                       /\ calls'[c].read = "ok" =>
              /\ UNCHANGED <<graphData, view, sim, objs, vizNodes>>
              /\ ~ calls'[c].logged
              /\ calls'[c].status = "resolved"
              /\ ~ HasOutgoing(calls[c].node.id, graphData'.links)]_vars

\* C14 witness: the read of an empty folder has returned.
EmptyFolderRead ==
    /\ last.op = "readEmpty"
    /\ calls[last.call].status = "resolved"

\* C15 - Root permanence: the root node, a folder, is in the node set in
\* every reachable state.
RootPermanence ==
    \E i \in 1..Len(graphData.nodes) :
        graphData.nodes[i].id = ROOT_PATH /\ graphData.nodes[i].type = "folder"

\* C15 witness: the expanded root was collapsed and is still in the node set.
RootCollapsed ==
    /\ last.op = "collapse"
    /\ last.node = ROOT_PATH
    /\ ROOT_PATH \in Ids(graphData.nodes)

\* C16 - Toggle of an absent identity is a no-op: a Toggle issued for an
\* identity that the node set does not hold changes nothing: its read adds
\* no node and no link.
AbsentToggleNoOp ==
    [][\A c \in 1..Len(calls) :
          Completes(c) /\ ~ calls[c].present =>
              graphData' = graphData]_vars

\* The identities registered with the simulation, in order.
Registered == [i \in 1..Len(sim.nodes) |-> objs[sim.nodes[i]].id]

\* This step ran the merge effect: a new graphData value was rendered.
ReseedStep == view' # view

ReseedPreservesNodes ==
    [][ReseedStep /\ mounted' =>
          \A i \in 1..Len(sim.nodes) :
              LET t == sim.nodes[i]
              IN  (\E j \in 1..Len(sim'.nodes) : objs'[sim'.nodes[j]].id = objs[t].id)
                  => /\ \E j \in 1..Len(sim'.nodes) : sim'.nodes[j] = t
                     /\ objs'[t] = objs[t]]_vars

\* C20 - Heat floor during drag: alphaTarget is 0.3 whenever a pointer is
\* down on a node, and 0 when none is.
HeatFloorDuringDrag ==
    mounted => sim.alphaTarget = (IF pointers # {} THEN AlphaTargetDrag ELSE 0)

\* C21 - Pinned only while dragged: a drawn or registered node has a pin
\* only while a pointer is down on it (so no pointer-move pins a node that
\* is not mid-drag), and the node of a released pointer has no pin.
PinnedOnlyWhileDragged ==
    /\ [](mounted =>
            \A t \in Range(vizNodes) \cup Range(sim.nodes) :
                objs[t].fx # NoValue => objs[t].id \in pointers)
    /\ [][\A id \in pointers \ pointers' :
             \A t \in Range(vizNodes') :
                 objs'[t].id = id => objs'[t].fx = NoValue]_vars

\* C21 witness: a node was dragged away from its position while a second
\* pointer is down on another node.
DraggedAway ==
    /\ mounted
    /\ Cardinality(pointers) = 2
    /\ \E t \in Range(vizNodes) : objs[t].fx # NoValue /\ objs[t].fx # objs[t].x

\* C22 - Collapse terminates: on every link set of a reachable state a link
\* leads to a longer path (so the recursion of getDescendants ends), and for
\* every identity F the traversal returns exactly the identities reachable
\* from F by one or more links (none on the empty link set).
TraversalTerminates ==
    \A links \in {view.links, graphData.links} :
        /\ \A i \in 1..Len(links) : Len(links[i].target) > Len(links[i].source)
        /\ \A F \in Ids(view.nodes) \cup Ids(graphData.nodes)
                      \cup {links[i].source : i \in 1..Len(links)} :
              Range(getDescendants(F, links)) = Reachable(F, links)

\* C22 witness: a Collapse has run its traversal and the rendered link set
\* is two levels deep.
DeepTraversal ==
    /\ last.op = "collapse"
    /\ \E i, j \in 1..Len(view.links) :
          /\ view.links[i].source = ROOT_PATH
          /\ view.links[j].source = view.links[i].target

\* C23 - ReadDir has two outcomes: a finished call has either failed with no
\* entries, or returned exactly one entry per child that os.ReadDir listed,
\* each with the joined path and the type of its kind; it ends in no other
\* way, also when a child vanishes between the listing and the size lookup.
ReadDirTwoOutcomes ==
    rd.pc = "done" =>
        \/ rd.outcome = "error" /\ rd.nodes = << >>
        \/ /\ rd.outcome = "ok"
           /\ rd.nodes = [i \in 1..Len(rd.entries) |->
                            [name |-> rd.entries[i].name,
                             path |-> Join(rd.path, rd.entries[i].name),
                             type |-> IF rd.entries[i].isDir THEN "folder"
                                      ELSE "file"]]

\* C24 - Stale snapshot: an Expand tests the returned entries against the
\* node set its click saw (the rendered one at the time of the Toggle), not
\* the one current when the read returns, and appends the resulting nodes
\* and links to the store current at that time; a Collapse takes the
\* descendants from the link set its click saw and filters the current store.
StaleSnapshot ==
    [][/\ ExpandStep => calls'[Len(calls')].closureNodes = view.nodes
       /\ \A c \in 1..Len(calls) :
             Completes(c) /\ calls'[c].read = "ok" =>
                 LET files == ReadDir(calls[c].node.id)
                     new == SelectSeq(files,
                               LAMBDA f : f.path \notin Ids(calls[c].closureNodes))
                 IN  /\ graphData'.nodes = graphData.nodes \o
                           [i \in 1..Len(new) |->
                               [id |-> new[i].path, name |-> new[i].name,
                                type |-> new[i].type]]
                     /\ graphData'.links = graphData.links \o
                           [i \in 1..Len(new) |->
                               [source |-> calls[c].node.id, target |-> new[i].path]]
       /\ CollapseStep =>
             LET D == Reachable(last'.node, view.links)
             IN  /\ graphData'.nodes =
                       SelectSeq(graphData.nodes, LAMBDA n : n.id \notin D)
                 /\ graphData'.links =
                       SelectSeq(graphData.links,
                           LAMBDA l : l.source \notin D /\ l.target \notin D)]_vars

\* C24 witness: a read has returned to a store that no longer holds what the
\* click saw, and entries the store already held were appended again.
StaleApplied ==
    /\ last.op = "readReturned"
    /\ Ids(calls[last.call].closureNodes) # Ids(last.pre.nodes)
    /\ \E i \in (Len(last.pre.nodes) + 1)..Len(graphData.nodes) :
          graphData.nodes[i].id \in Ids(last.pre.nodes)

====
